---- MODULE Spec2Model ----
(***************************************************************************)
(* A model of bgentry/heliospectra: the UDP command codec                  *)
(* (makeUDPPayload, cmdAsHex), the UDP discovery scan (ScanUDP and its     *)
(* receiver goroutine udpScanReceive) and the HTTP device client           *)
(* (Device.Diagnostic, Device.SetIntensities) with the decoder of the      *)
(* wavelength list (WavelengthList.UnmarshalXML).                          *)
(*                                                                         *)
(* The specifications share the variables: SpecCodec drives the pure       *)
(* codec functions, SpecScan the discovery scan (SpecScanFair adds the     *)
(* fairness of the receiver goroutine), SpecHttp the device client and     *)
(* SpecWl the wavelength-list decoder.  Each leaves the other parts'       *)
(* variables at their initial value.                                       *)
(***************************************************************************)
EXTENDS Integers, Sequences, FiniteSets, TLC

VARIABLES
    \* --- codec (makeUDPPayload) ---
    cPc,            \* "init" before the call, "done" after it; "off" at rest
    cCmd,           \* the commandID argument (uint8)
    cMac,           \* the net.HardwareAddr argument
    cData,          \* the data argument: the bytes of the []byte
    cDataNil,       \* the data argument is the nil slice
    cPkt,           \* the []byte returned (empty when nil)
    cErr,           \* the error returned ("none" before the call)
    \* --- scan (ScanUDP, udpScanReceive) ---
    scanPc,         \* position of ScanUDP: "dial", "listen", "send", "loop", "returned"; "idle" at rest
    recvPc,         \* position of udpScanReceive: "none", "read", "offer", "exited"
    ctxDone,        \* the scan context (caller's ctx with 4 s timeout) is done
    sockOpen,       \* the send socket is open
    recvSockOpen,   \* the receive socket is open
    pending,        \* the DeviceInfo the receiver offers on ch, or Nil
    results,        \* results slice of ScanUDP
    resultSerials,  \* resultSerials map of ScanUDP (its true keys)
    scanErr,        \* error returned by ScanUDP ("none" until it returns)
    sent,           \* the query packet written to the send socket, or Nil
    accepted,       \* history: datagrams the receiver put on offer, in order
    nHanded,        \* history: how many of them were sent on ch
    nReads,         \* history: datagrams read so far
    lastRead,       \* history: the datagram read last
    lateAppends,    \* history: records appended to results while ctx was done
    \* --- device client (Device.Diagnostic, Device.SetIntensities) ---
    httpPc,         \* "idle", "waiting" (client.Do outstanding), "returned"; "off" at rest
    httpOp,         \* the method called
    httpArgs,       \* the intensities passed to SetIntensities
    dAddr,          \* Device.addr
    req,            \* the *http.Request handed to client.Do
    callerCtxDone,  \* the ctx passed by the caller is done
    cancelledOutstanding, \* history: ctx became done while the request was outstanding
    httpResp,       \* the response client.Do returned, or Nil
    httpModel,      \* "nil" or "model": the *Diagnostic returned
    httpErr,        \* "none" until the call returns, then "nil" or "err"
    dialed,         \* the address the transport dials for the request
    \* --- wavelength list (WavelengthList.UnmarshalXML inside Diagnostic) ---
    wlPc,           \* "init", "decoded" (UnmarshalXML returned), "returned"; "off" at rest
    wlParts,        \* how the text was put together: its segments, each a list of fields
    wlTrail,        \* how the text was put together: the commas after the last segment
    wlDecodeFails,  \* d.DecodeElement fails (the element's content is no character data)
    wlVal,          \* val: the character data of the <wavelengths> element
    wlList,         \* *wl: the WavelengthList the decoder appends to
    wlErr,          \* the error UnmarshalXML returned ("none" before it returns)
    wlDiag,         \* what Diagnostic returned: "none" yet, "nil", or "model"
    wlDiagErr       \* the error Diagnostic returned ("none" before it returns)

codecVars == <<cPc, cCmd, cMac, cData, cDataNil, cPkt, cErr>>
scanVars == <<scanPc, recvPc, ctxDone, sockOpen, recvSockOpen, pending, results,
              resultSerials, scanErr, sent, accepted, nHanded, nReads, lastRead,
              lateAppends>>
httpVars == <<httpPc, httpOp, httpArgs, dAddr, req, callerCtxDone,
              cancelledOutstanding, httpResp, httpModel, httpErr, dialed>>
wlVars == <<wlPc, wlParts, wlTrail, wlDecodeFails, wlVal, wlList, wlErr, wlDiag,
            wlDiagErr>>
vars == <<codecVars, scanVars, httpVars, wlVars>>

\* Go's nil error.
Nil == "nil"

\* A []byte: the nil slice, or a slice holding the bytes b.
NilSlice == [isNil |-> TRUE, bytes |-> <<>>]
Slice(b) == [isNil |-> FALSE, bytes |-> b]

-----------------------------------------------------------------------------
(* Program constants *)

TCPPort == 50630
UDPPort == 50632
commandIDQuery == 0
commandIDInfoReply == 6

\* uint8(x): Go's conversion of a non-negative int to a byte.
Uint8(x) == x % 256

-----------------------------------------------------------------------------
(* The command codec: cmdAsHex and makeUDPPayload *)

\* []byte("ABC321")
Magic == <<65, 66, 67, 51, 50, 49>>

\* net.ParseMAC("FF:FF:FF:FF:FF:FF")
BroadcastMAC == <<255, 255, 255, 255, 255, 255>>

DigitChar(d) == CASE d = 0 -> "0" [] d = 1 -> "1" [] d = 2 -> "2" [] d = 3 -> "3"
                  [] d = 4 -> "4" [] d = 5 -> "5" [] d = 6 -> "6" [] d = 7 -> "7"
                  [] d = 8 -> "8" [] d = 9 -> "9"

\* The decimal digits of n >= 0, most significant first (fmt's %d).
RECURSIVE Digits(_)
Digits(n) == IF n < 10 THEN <<DigitChar(n)>>
             ELSE Append(Digits(n \div 10), DigitChar(n % 10))

\* fmt.Sprintf("%02d", cmd): the decimal digits, zero-padded to width 2.
Sprintf02d(n) == IF n < 10 THEN <<"0">> \o Digits(n) ELSE Digits(n)

\* encoding/hex fromHexChar: the value of one hex character, -1 if it is none.
FromHexChar(ch) == CASE ch = "0" -> 0 [] ch = "1" -> 1 [] ch = "2" -> 2 [] ch = "3" -> 3
                     [] ch = "4" -> 4 [] ch = "5" -> 5 [] ch = "6" -> 6 [] ch = "7" -> 7
                     [] ch = "8" -> 8 [] ch = "9" -> 9 [] ch = "a" -> 10 [] ch = "b" -> 11
                     [] ch = "c" -> 12 [] ch = "d" -> 13 [] ch = "e" -> 14 [] ch = "f" -> 15
                     [] OTHER -> -1

\* hex.Decode(dst, src) for a dst of one byte: each pair of characters is decoded
\* into the next byte of dst, a character that is no hex digit is an
\* InvalidByteError, and an odd length is ErrLength (after the pairs are written).
\* src is at most three characters here (a uint8 in decimal).
HexDecode1(src) ==
    LET pairOk == Len(src) >= 2 /\ FromHexChar(src[1]) >= 0 /\ FromHexChar(src[2]) >= 0
        dst == IF pairOk THEN <<FromHexChar(src[1]) * 16 + FromHexChar(src[2])>> ELSE <<0>>
    IN  IF Len(src) >= 2 /\ ~pairOk THEN [dst |-> dst, err |-> "InvalidByteError"]
        ELSE IF Len(src) % 2 = 1 THEN [dst |-> dst, err |-> "ErrLength"]
        ELSE [dst |-> dst, err |-> Nil]

\* A plausible slip: the command code written as the byte itself.
cmdAsHexDirect(cmd) == [dst |-> <<cmd>>, err |-> Nil]

cmdAsHex(cmd) == HexDecode1(Sprintf02d(cmd))

\* A plausible slip: the two length bytes written high byte first.
LengthBytesBigEndian(data) ==
    IF ~data.isNil
    THEN <<Uint8(Len(data.bytes) \div 256), Uint8(Len(data.bytes) % 256)>>
    ELSE <<0, 0>>

\* The two length bytes makeUDPPayload writes after the header.
LengthBytes(data) ==
    IF ~data.isNil
    THEN <<Uint8(Len(data.bytes) % 256), Uint8(Len(data.bytes) \div 256)>>
    ELSE <<0, 0>>

makeUDPPayload(cmd, mac, data) ==
    LET h == cmdAsHex(cmd)
    IN  IF h.err # Nil
        THEN [pkt |-> <<>>, err |-> h.err]
        ELSE [pkt |-> Magic \o mac \o h.dst \o <<0>> \o LengthBytes(data)
                        \o (IF ~data.isNil THEN data.bytes ELSE <<>>),
              err |-> Nil]

makeUDPPayloadShort(cmd) == makeUDPPayload(cmd, BroadcastMAC, NilSlice)

-----------------------------------------------------------------------------
(* The discovery scan: ScanUDP and udpScanReceive *)

\* At most this many datagrams are read during one scan.
MaxReads == 3

\* A source port other than the discovery port.
OtherPort == UDPPort + 1

Serials == {"fc01", "fc02"}
FwVersions == {"R2.2.25", "R2.3.0"}

\* DeviceInfo{}: the zero value.
ZeroDeviceInfo == [SerialNum |-> "", FwVersion |-> ""]

\* A datagram as ReadFromUDP returns it: the sender's port, the number of bytes
\* read, data[12], and what data[16:read] holds: whether it is XML that decodes
\* into a DeviceInfo, and the SerialNr and FwVersion elements of it.  An XML
\* element takes at least four bytes, so a body that decodes has read >= 20.
Datagrams ==
    {d \in [port : {UDPPort, OtherPort}, read : {16, 17, 200},
            cmd : {commandIDQuery, commandIDInfoReply}, xmlOk : BOOLEAN,
            SerialNum : Serials, FwVersion : FwVersions] :
        d.xmlOk => d.read >= 20}

\* No datagram (the value of lastRead before the first read).
NoDatagram == [port |-> 0, read |-> 0, cmd |-> 0, xmlOk |-> FALSE,
               SerialNum |-> "", FwVersion |-> ""]

\* A plausible slip: the source port is not checked.
AcceptsAnyPort(dg) == dg.read >= 17 /\ dg.cmd = commandIDInfoReply

\* The three checks of the receive loop before the XML is decoded.
Accepts(dg) ==
    /\ dg.port = UDPPort
    /\ ~(dg.read < 17)
    /\ dg.cmd = commandIDInfoReply

\* xml.Unmarshal(data[16:read], &di)
UnmarshalDeviceInfo(dg) ==
    IF dg.xmlOk
    THEN [di |-> [SerialNum |-> dg.SerialNum, FwVersion |-> dg.FwVersion], err |-> Nil]
    ELSE [di |-> ZeroDeviceInfo, err |-> "err"]

\* A plausible slip: every record is appended, seen or not.
AggregateAll(st, di) ==
    [results |-> Append(st.results, di), serials |-> st.serials \cup {di.SerialNum}]

\* A plausible slip: a record with a serial number already seen takes the
\* place of the element kept for it.
AggregateReplace(st, di) ==
    IF di.SerialNum \notin st.serials
    THEN [results |-> Append(st.results, di), serials |-> st.serials \cup {di.SerialNum}]
    ELSE [results |-> [i \in 1..Len(st.results) |->
                          IF st.results[i].SerialNum = di.SerialNum THEN di
                          ELSE st.results[i]],
          serials |-> st.serials]

\* The body of `case di := <-ch` in the aggregator loop.
Aggregate(st, di) ==
    IF di.SerialNum \notin st.serials
    THEN [results |-> Append(st.results, di), serials |-> st.serials \cup {di.SerialNum}]
    ELSE st

\* A plausible slip: the record is taken wherever ScanUDP is (a buffered or
\* shared hand-off that outlives the loop).
HandoffReadyAnywhere == recvPc = "offer"

\* Both sides of the unbuffered channel are at their select: the receiver at
\* `case ch <- di`, the aggregator at `case di := <-ch`.
HandoffReady == recvPc = "offer" /\ scanPc = "loop"

\* A plausible slip: the context's error is returned with the results.
ReturnAtDoneCtxErr == "err"

\* `return results, nil`
ReturnAtDone == Nil

\* A plausible slip: `defer socket.Close()` is missing.
ScanReturnsNoSocketClose(err) ==
    /\ scanPc' = "returned"
    /\ scanErr' = err
    /\ sockOpen' = sockOpen
    /\ recvSockOpen' = FALSE
    /\ ctxDone' = TRUE

\* A plausible slip: `defer recvSocket.Close()` is missing.
ScanReturnsNoRecvClose(err) ==
    /\ scanPc' = "returned"
    /\ scanErr' = err
    /\ sockOpen' = FALSE
    /\ recvSockOpen' = recvSockOpen
    /\ ctxDone' = TRUE

\* A return of ScanUDP with its deferred calls: recvSocket.Close(),
\* socket.Close(), cancel().
ScanReturns(err) ==
    /\ scanPc' = "returned"
    /\ scanErr' = err
    /\ sockOpen' = FALSE
    /\ recvSockOpen' = FALSE
    /\ ctxDone' = TRUE

ScanInit ==
    /\ scanPc = "dial" /\ recvPc = "none" /\ ctxDone = FALSE
    /\ sockOpen = FALSE /\ recvSockOpen = FALSE /\ pending = ZeroDeviceInfo
    /\ results = <<>> /\ resultSerials = {} /\ scanErr = "none" /\ sent = <<>>
    /\ accepted = <<>> /\ nHanded = 0 /\ nReads = 0 /\ lastRead = NoDatagram
    /\ lateAppends = 0

\* The caller cancels its context, or the 4-second timeout fires.
CtxDone ==
    /\ scanPc # "returned"
    /\ ~ctxDone
    /\ ctxDone' = TRUE
    /\ UNCHANGED <<scanPc, recvPc, sockOpen, recvSockOpen, pending, results,
                   resultSerials, scanErr, sent, accepted, nHanded, nReads, lastRead, lateAppends>>
    /\ UNCHANGED <<codecVars, httpVars, wlVars>>

\* net.DialUDP
ScanDial ==
    /\ scanPc = "dial"
    /\ \E ok \in BOOLEAN :
         IF ok
         THEN /\ sockOpen' = TRUE
              /\ scanPc' = "listen"
              /\ UNCHANGED <<ctxDone, recvSockOpen, scanErr>>
         ELSE ScanReturns("err")
    /\ UNCHANGED <<recvPc, pending, results, resultSerials, sent, accepted,
                   nHanded, nReads, lastRead, lateAppends>>
    /\ UNCHANGED <<codecVars, httpVars, wlVars>>

\* net.ListenUDP, make(chan DeviceInfo), go udpScanReceive(ctx, recvSocket, ch)
ScanListen ==
    /\ scanPc = "listen"
    /\ \E ok \in BOOLEAN :
         IF ok
         THEN /\ recvSockOpen' = TRUE
              /\ recvPc' = "read"
              /\ scanPc' = "send"
              /\ UNCHANGED <<ctxDone, sockOpen, scanErr>>
         ELSE ScanReturns("err") /\ UNCHANGED recvPc
    /\ UNCHANGED <<pending, results, resultSerials, sent, accepted, nHanded,
                   nReads, lastRead, lateAppends>>
    /\ UNCHANGED <<codecVars, httpVars, wlVars>>

\* makeUDPPayloadShort(commandIDQuery) and socket.Write(payload)
ScanSend ==
    /\ scanPc = "send"
    /\ LET payload == makeUDPPayloadShort(commandIDQuery)
       IN  \E written \in BOOLEAN :
             IF payload.err = Nil /\ written
             THEN /\ sent' = payload.pkt
                  /\ scanPc' = "loop"
                  /\ UNCHANGED <<ctxDone, sockOpen, recvSockOpen, scanErr>>
             ELSE ScanReturns("err") /\ UNCHANGED sent
    /\ UNCHANGED <<recvPc, pending, results, resultSerials, accepted, nHanded,
                   nReads, lastRead, lateAppends>>
    /\ UNCHANGED <<codecVars, httpVars, wlVars>>

\* The channel communication: `case ch <- di` of the receiver with
\* `case di := <-ch` of the aggregator.  Go's select picks among its ready
\* cases at random, so this step is possible also when ctx is done.
Handoff ==
    /\ HandoffReady
    /\ LET st == Aggregate([results |-> results, serials |-> resultSerials], pending)
       IN  /\ results' = st.results
           /\ resultSerials' = st.serials
    /\ nHanded' = nHanded + 1
    /\ lateAppends' = IF ctxDone /\ results' # results THEN lateAppends + 1
                      ELSE lateAppends
    /\ pending' = ZeroDeviceInfo
    /\ recvPc' = "read"
    /\ UNCHANGED <<scanPc, ctxDone, sockOpen, recvSockOpen, scanErr, sent,
                   accepted, nReads, lastRead>>
    /\ UNCHANGED <<codecVars, httpVars, wlVars>>

\* `case <-ctx.Done(): return results, nil`
ScanCtxDone ==
    /\ scanPc = "loop"
    /\ ctxDone
    /\ ScanReturns(ReturnAtDone)
    /\ UNCHANGED <<recvPc, pending, results, resultSerials, sent, accepted,
                   nHanded, nReads, lastRead, lateAppends>>
    /\ UNCHANGED <<codecVars, httpVars, wlVars>>

\* A plausible slip: the receiver reads on while a record waits to be taken (a
\* send that does not block, as on a buffered channel).
AtReadFromUDPOrSelect == recvPc \in {"read", "offer"}

\* The receiver is at conn.ReadFromUDP: at the head of its loop, which it
\* reaches again only once its select has sent the record on ch.
AtReadFromUDP == recvPc = "read"

\* A plausible slip: `return` where the loop has `continue`.
AfterContinueReturns == "exited"

\* Where `continue` takes the receiver: back to conn.ReadFromUDP.
AfterContinue == "read"

\* One turn of the receive loop: ReadFromUDP returns a datagram, the checks and
\* the XML decoding either reject it (continue) or leave a record on offer.
RecvRead ==
    /\ AtReadFromUDP
    /\ recvSockOpen
    /\ nReads < MaxReads
    /\ \E dg \in Datagrams :
         LET u == UnmarshalDeviceInfo(dg)
         IN  /\ lastRead' = dg
             /\ IF Accepts(dg) /\ u.err = Nil
                THEN /\ pending' = u.di
                     /\ accepted' = Append(accepted, dg)
                     /\ recvPc' = "offer"
                ELSE /\ recvPc' = AfterContinue
                     /\ UNCHANGED <<pending, accepted>>
    /\ nReads' = nReads + 1
    /\ UNCHANGED <<scanPc, ctxDone, sockOpen, recvSockOpen, results,
                   resultSerials, scanErr, sent, nHanded, lateAppends>>
    /\ UNCHANGED <<codecVars, httpVars, wlVars>>

\* ReadFromUDP returns an error (the socket was closed, or the read failed):
\* the goroutine returns.
RecvReadErr ==
    /\ recvPc = "read"
    /\ recvPc' = "exited"
    /\ UNCHANGED <<scanPc, ctxDone, sockOpen, recvSockOpen, pending, results,
                   resultSerials, scanErr, sent, accepted, nHanded, nReads, lastRead, lateAppends>>
    /\ UNCHANGED <<codecVars, httpVars, wlVars>>

\* `case <-ctx.Done(): return` of the receiver's select.
RecvCtxDone ==
    /\ recvPc = "offer"
    /\ ctxDone
    /\ recvPc' = "exited"
    /\ UNCHANGED <<scanPc, ctxDone, sockOpen, recvSockOpen, pending, results,
                   resultSerials, scanErr, sent, accepted, nHanded, nReads, lastRead, lateAppends>>
    /\ UNCHANGED <<codecVars, httpVars, wlVars>>

ScanNext ==
    \/ CtxDone
    \/ ScanDial
    \/ ScanListen
    \/ ScanSend
    \/ Handoff
    \/ ScanCtxDone
    \/ RecvRead
    \/ RecvReadErr
    \/ RecvCtxDone

-----------------------------------------------------------------------------
(* The device client: Device.Diagnostic and Device.SetIntensities *)

\* At most this many intensities are passed to SetIntensities.
MaxIntensities == 3

\* At most this many tokens make up a response body.
MaxBodyTokens == 3

\* Device addresses (d.addr.String()).
Addrs == {"192.168.1.8", "10.0.0.2"}

IntensityValues == {-1, 0, 7, 12, 100}

\* All sequences over S of length at most n.
SeqsUpTo(S, n) == UNION {[1..k -> S] : k \in 0..n}

IntensitySeqs == SeqsUpTo(IntensityValues, MaxIntensities)

\* fmt.Fprintf(&buf, "%d", intensity): the characters written.
FormatInt(n) == IF n < 0 THEN <<"-">> \o Digits(-n) ELSE Digits(n)

\* A plausible slip: a ':' is written after every intensity.
RECURSIVE IntensityStringTrailing(_)
IntensityStringTrailing(ints) ==
    IF ints = <<>> THEN <<>>
    ELSE FormatInt(Head(ints)) \o <<":">> \o IntensityStringTrailing(Tail(ints))

\* The loop of SetIntensities over its arguments: buf.String() at its end.
RECURSIVE IntensityString(_)
IntensityString(ints) ==
    IF ints = <<>> THEN <<>>
    ELSE LET n == Len(ints)
             front == IntensityString(SubSeq(ints, 1, n - 1))
         IN  (IF n - 1 # 0 THEN front \o <<":">> ELSE front) \o FormatInt(ints[n])

\* url.QueryEscape over the characters that occur here: digits, letters and
\* '-' are kept, ':' becomes %3A.
RECURSIVE QueryEscape(_)
QueryEscape(str) ==
    IF str = <<>> THEN <<>>
    ELSE (IF Head(str) = ":" THEN <<"%", "3", "A">> ELSE <<Head(str)>>)
         \o QueryEscape(Tail(str))

\* q := u.Query(); q.Set("int", v); q.Encode()
EncodeQuery(v) == <<"i", "n", "t", "=">> \o QueryEscape(v)

\* A plausible variant (the earlier revision of Diagnostic): Host carries
\* ":" + strconv.Itoa(TCPPort).
DeviceHostWithTCPPort(addr) == [ip |-> addr, port |-> Digits(TCPPort)]

\* Host: d.addr.String() -- the address and no port.
DeviceHost(addr) == [ip |-> addr, port |-> <<>>]

\* u.String() followed by the parse in http.NewRequest: a path without a
\* leading slash gets one when the URL has a host.
NormalizePath(path) ==
    CASE path = "diag.xml" -> "/diag.xml"
      [] path = "intensity.cgi" -> "/intensity.cgi"
      [] OTHER -> path

\* http.NewRequest("GET", u.String(), nil) and req.Header.Set("Connection",
\* "close"): the request carries the background context.
NewRequest(method, u) ==
    [Method |-> method,
     URL |-> [Scheme |-> u.Scheme, Host |-> u.Host, Path |-> NormalizePath(u.Path),
              RawQuery |-> u.RawQuery],
     Connection |-> "close",
     ctx |-> "background"]

\* r.WithContext(ctx) returns a shallow copy of r with its context changed to
\* ctx; r itself is unchanged.
WithContext(r, ctx) == [r EXCEPT !.ctx = ctx]

NoRequest ==
    [Method |-> "", URL |-> [Scheme |-> "", Host |-> [ip |-> "", port |-> <<>>],
                             Path |-> "", RawQuery |-> <<>>],
     Connection |-> "", ctx |-> "background"]

NoResponse == [kind |-> "none", status |-> 0, body |-> <<>>]

\* The address the HTTP transport dials for a URL: its host, and the port of
\* the URL or, when it has none, the port of the scheme (80 for http).
DialAddr(u) ==
    [ip |-> u.Host.ip,
     port |-> IF u.Host.port = <<>> THEN <<"8", "0">> ELSE u.Host.port]

\* Whether the context a request carries is done: the background context never
\* is, the caller's is once it is cancelled or past its deadline.
ContextDone(c) == c = "caller" /\ callerCtxDone

StatusCodes == {200, 400, 500}

\* What a response body is made of, as the XML decoder reads it: character
\* data that is no markup (as in {"some":"json"}), a start tag, an end tag,
\* and markup that is not well-formed.
Tokens == {"text", "start", "end", "junk"}

Bodies == SeqsUpTo(Tokens, MaxBodyTokens)

\* What d.client.Do(req) can return: an error once the request's context is
\* done; otherwise an error of the transport, or the device's response.  The
\* body of the answer to intensity.cgi is never read and is left empty.
DoOutcomes(r) ==
    IF ContextDone(r.ctx)
    THEN {[kind |-> "error", status |-> 0, body |-> <<>>]}
    ELSE {[kind |-> "error", status |-> 0, body |-> <<>>]}
         \cup [kind : {"response"}, status : StatusCodes,
               body : IF r.URL.Path = "/diag.xml" THEN Bodies ELSE {<<>>}]

\* The decoder inside an element, depth start tags deep, at token i: it reads
\* to the end tag that closes the first element and no further.
RECURSIVE ReadElement(_, _, _)
ReadElement(body, i, depth) ==
    IF depth = 0 THEN Nil
    ELSE IF i > Len(body) THEN "unexpected EOF"
    ELSE CASE body[i] = "start" -> ReadElement(body, i + 1, depth + 1)
           [] body[i] = "end" -> ReadElement(body, i + 1, depth - 1)
           [] body[i] = "text" -> ReadElement(body, i + 1, depth)
           [] OTHER -> "syntax error"

\* The decoder looking for the first start tag from token i on: character data
\* is skipped, the end of the body is io.EOF.
RECURSIVE FindStart(_, _)
FindStart(body, i) ==
    IF i > Len(body) THEN "EOF"
    ELSE CASE body[i] = "start" -> ReadElement(body, i + 1, 1)
           [] body[i] = "text" -> FindStart(body, i + 1)
           [] OTHER -> "syntax error"

\* xml.NewDecoder(res.Body).Decode(diag)
DecodeDiagnostic(body) == FindStart(body, 1)

\* A plausible slip: the status code is not checked before decoding.
DiagnosticResultNoStatusCheck(out) ==
    IF out.kind = "error" THEN [model |-> "nil", err |-> "err"]
    ELSE IF DecodeDiagnostic(out.body) # Nil THEN [model |-> "nil", err |-> "err"]
    ELSE [model |-> "model", err |-> Nil]

\* Diagnostic from the return of client.Do on.
DiagnosticResult(out) ==
    IF out.kind = "error" THEN [model |-> "nil", err |-> "err"]
    ELSE IF out.status # 200 THEN [model |-> "nil", err |-> "err"]
    ELSE IF DecodeDiagnostic(out.body) # Nil THEN [model |-> "nil", err |-> "err"]
    ELSE [model |-> "model", err |-> Nil]

\* SetIntensities from the return of client.Do on.
SetIntensitiesResult(out) ==
    IF out.kind = "error" THEN [model |-> "nil", err |-> "err"]
    ELSE IF out.status # 200 THEN [model |-> "nil", err |-> "err"]
    ELSE [model |-> "nil", err |-> Nil]

\* NewDevice(addr, client)
HttpInit ==
    /\ httpPc = "idle" /\ httpOp = "none" /\ httpArgs = <<>>
    /\ dAddr \in Addrs
    /\ req = NoRequest /\ callerCtxDone = FALSE /\ cancelledOutstanding = FALSE
    /\ httpResp = NoResponse /\ httpModel = "nil" /\ httpErr = "none"
    /\ dialed = [ip |-> "", port |-> <<>>]

\* The ctx passed to the call is cancelled, or its deadline expires.
CallerCancel ==
    /\ ~callerCtxDone
    /\ httpPc # "returned"
    /\ callerCtxDone' = TRUE
    /\ cancelledOutstanding' = (httpPc = "waiting")
    /\ UNCHANGED <<httpPc, httpOp, httpArgs, dAddr, req, httpResp, httpModel,
                   httpErr, dialed>>
    /\ UNCHANGED <<codecVars, scanVars, wlVars>>

\* Diagnostic up to d.client.Do(req).  The copy that req.WithContext(ctx)
\* returns is dropped: the request sent is the one NewRequest made.
CallDiagnostic ==
    /\ httpPc = "idle"
    /\ LET u == [Scheme |-> "http", Host |-> DeviceHost(dAddr), Path |-> "diag.xml",
                 RawQuery |-> <<>>]
           r == NewRequest("GET", u)
           dropped == WithContext(r, "caller")
       IN  /\ dropped.ctx = "caller"
           /\ req' = r
           /\ dialed' = DialAddr(r.URL)
    /\ httpOp' = "Diagnostic"
    /\ httpPc' = "waiting"
    /\ UNCHANGED <<httpArgs, dAddr, callerCtxDone, cancelledOutstanding, httpResp,
                   httpModel, httpErr>>
    /\ UNCHANGED <<codecVars, scanVars, wlVars>>

\* SetIntensities up to d.client.Do(req), with the same dropped copy.
CallSetIntensities ==
    /\ httpPc = "idle"
    /\ \E ints \in IntensitySeqs :
         LET u == [Scheme |-> "http", Host |-> DeviceHost(dAddr),
                   Path |-> "intensity.cgi",
                   RawQuery |-> EncodeQuery(IntensityString(ints))]
             r == NewRequest("GET", u)
             dropped == WithContext(r, "caller")
         IN  /\ dropped.ctx = "caller"
             /\ httpArgs' = ints
             /\ req' = r
             /\ dialed' = DialAddr(r.URL)
    /\ httpOp' = "SetIntensities"
    /\ httpPc' = "waiting"
    /\ UNCHANGED <<dAddr, callerCtxDone, cancelledOutstanding, httpResp,
                   httpModel, httpErr>>
    /\ UNCHANGED <<codecVars, scanVars, wlVars>>

\* d.client.Do(req) returns and the call runs to its return.
ClientDoReturns ==
    /\ httpPc = "waiting"
    /\ \E out \in DoOutcomes(req) :
         LET res == IF httpOp = "Diagnostic" THEN DiagnosticResult(out)
                    ELSE SetIntensitiesResult(out)
         IN  /\ httpResp' = out
             /\ httpModel' = res.model
             /\ httpErr' = res.err
    /\ httpPc' = "returned"
    /\ UNCHANGED <<httpOp, httpArgs, dAddr, req, callerCtxDone,
                   cancelledOutstanding, dialed>>
    /\ UNCHANGED <<codecVars, scanVars, wlVars>>

HttpNext ==
    \/ CallerCancel
    \/ CallDiagnostic
    \/ CallSetIntensities
    \/ ClientDoReturns

-----------------------------------------------------------------------------
(* The wavelength list: WavelengthList.UnmarshalXML, and Diagnostic around it *)

\* At most this many segments make up a wavelength-list text.
MaxSegments == 2

\* At most this many commas follow the last segment of a text.
MaxTrail == 2

\* strings.TrimRight(str, cutset) for a cutset of one character: every
\* trailing character of the cutset is removed, however many there are.
RECURSIVE stringsTrimRight(_, _)
stringsTrimRight(str, cut) ==
    IF str # <<>> /\ str[Len(str)] = cut
    THEN stringsTrimRight(SubSeq(str, 1, Len(str) - 1), cut)
    ELSE str

\* strings.Split(str, sep) for a one-character sep: the substrings between
\* the separators, one more than there are separators (the empty string
\* gives one empty substring).
RECURSIVE stringsSplit(_, _)
stringsSplit(str, sep) ==
    IF \A k \in 1..Len(str) : str[k] # sep THEN <<str>>
    ELSE LET k == CHOOSE k \in 1..Len(str) :
                      str[k] = sep /\ \A m \in 1..(k - 1) : str[m] # sep
         IN  <<SubSeq(str, 1, k - 1)>> \o stringsSplit(SubSeq(str, k + 1, Len(str)), sep)

\* The value of a string of decimal digits.
RECURSIVE DigitsValue(_)
DigitsValue(str) ==
    IF str = <<>> THEN 0
    ELSE 10 * DigitsValue(SubSeq(str, 1, Len(str) - 1)) + FromHexChar(str[Len(str)])

\* strconv.Atoi(str): an optional sign, then one or more decimal digits and
\* nothing else; anything else is a *NumError.  (The texts here have at most
\* three digits, so the range error of a number beyond int does not arise.)
strconvAtoi(str) ==
    LET signed == str # <<>> /\ str[1] \in {"-", "+"}
        digits == IF signed THEN Tail(str) ELSE str
    IN  IF digits = <<>> \/ \E k \in 1..Len(digits) : FromHexChar(digits[k]) \notin 0..9
        THEN [num |-> 0, err |-> "NumError"]
        ELSE [num |-> IF signed /\ str[1] = "-" THEN 0 - DigitsValue(digits)
                      ELSE DigitsValue(digits),
              err |-> Nil]

\* A plausible slip: each description is put in front of the list.
RECURSIVE UnmarshalPartsPrepend(_, _, _)
UnmarshalPartsPrepend(wl, parts, i) ==
    IF i > Len(parts) THEN [wl |-> wl, err |-> Nil]
    ELSE LET items == stringsSplit(parts[i], ":")
         IN  IF Len(items) # 3 THEN [wl |-> wl, err |-> "invalid WavelengthList"]
             ELSE LET a == strconvAtoi(items[1])
                  IN  IF a.err # Nil THEN [wl |-> wl, err |-> a.err]
                      ELSE UnmarshalPartsPrepend(
                               <<[Number |-> Uint8(a.num), Wavelength |-> items[2],
                                  Power |-> items[3]]>> \o wl,
                               parts, i + 1)

\* `for _, part := range wlParts` from its i-th turn on: the list is appended
\* to turn by turn, and a return with an error leaves what was appended.
RECURSIVE UnmarshalParts(_, _, _)
UnmarshalParts(wl, parts, i) ==
    IF i > Len(parts) THEN [wl |-> wl, err |-> Nil]
    ELSE LET items == stringsSplit(parts[i], ":")
         IN  IF Len(items) # 3 THEN [wl |-> wl, err |-> "invalid WavelengthList"]
             ELSE LET a == strconvAtoi(items[1])
                  IN  IF a.err # Nil THEN [wl |-> wl, err |-> a.err]
                      ELSE UnmarshalParts(
                               Append(wl, [Number |-> Uint8(a.num), Wavelength |-> items[2],
                                           Power |-> items[3]]),
                               parts, i + 1)

\* (wl *WavelengthList) UnmarshalXML(d, start), where d.DecodeElement either
\* fails or stores the element's character data in val.
UnmarshalXML(wl, val, decodeFails) ==
    IF decodeFails THEN [wl |-> wl, err |-> "xml"]
    ELSE UnmarshalParts(wl, stringsSplit(stringsTrimRight(val, ","), ","), 1)

\* The end of Diagnostic for a 200 response: Decode(diag) returns the error
\* of UnmarshalXML if it has one; the model is returned only without error.
DiagnosticDecoded(err) ==
    IF err # Nil THEN [model |-> "nil", err |-> err]
    ELSE [model |-> "model", err |-> Nil]

\* Segments as the device writes them (the tests' diag.xml): number,
\* wavelength, power.
GoodSegments ==
    { << <<"0">>, <<"4", "5", "0", "n", "m">>, <<"1", "0", ".", "2", "W">> >>,
      << <<"1">>, <<"6", "6", "0", "n", "m">>, <<"5", ".", "2", "W">> >>,
      << <<"2", "5", "5">>, <<"5", "7", "0", "0", "K">>, <<"6", ".", "0", "W">> >> }

\* Segments with a channel number outside 0..255, with one that is no number,
\* with two and with four fields, and the empty segment.
OddSegments ==
    { << <<"-", "1">>, <<"4", "5", "0", "n", "m">>, <<"1", "0", ".", "2", "W">> >>,
      << <<"2", "5", "6">>, <<"6", "6", "0", "n", "m">>, <<"5", ".", "2", "W">> >>,
      << <<"x">>, <<"4", "5", "0", "n", "m">>, <<"1", "0", ".", "2", "W">> >>,
      << <<"0">>, <<"4", "5", "0", "n", "m">> >>,
      << <<"3">>, <<"7", "3", "5", "n", "m">>, <<"1", "0", ".", "0", "W">>, <<"x">> >>,
      << <<>> >> }

Segments == GoodSegments \cup OddSegments

\* strs joined by sep.
RECURSIVE Join(_, _)
Join(strs, sep) ==
    IF strs = <<>> THEN <<>>
    ELSE IF Len(strs) = 1 THEN strs[1]
    ELSE strs[1] \o <<sep>> \o Join(Tail(strs), sep)

\* The text of the <wavelengths> element: the segments, their fields joined by
\* ':', joined by ',', and trail commas after the last.
WlText(segs, trail) ==
    Join([i \in 1..Len(segs) |-> Join(segs[i], ":")], ",") \o [k \in 1..trail |-> ","]

WlIdle ==
    /\ wlPc = "off" /\ wlParts = <<>> /\ wlTrail = 0 /\ wlDecodeFails = FALSE
    /\ wlVal = <<>> /\ wlList = <<>> /\ wlErr = "none" /\ wlDiag = "none"
    /\ wlDiagErr = "none"

\* diag := &Diagnostic{}: the list is empty when the decoder reaches the
\* <wavelengths> element of the body.
WlInit ==
    /\ wlPc = "init"
    /\ wlParts \in SeqsUpTo(Segments, MaxSegments)
    /\ wlTrail \in 0..MaxTrail
    /\ wlDecodeFails \in BOOLEAN
    /\ wlVal = WlText(wlParts, wlTrail)
    /\ wlList = <<>> /\ wlErr = "none" /\ wlDiag = "none" /\ wlDiagErr = "none"

\* One call of diag.Wavelengths.UnmarshalXML by the XML decoder.
WlUnmarshal ==
    /\ wlPc = "init"
    /\ LET out == UnmarshalXML(wlList, wlVal, wlDecodeFails)
       IN  wlList' = out.wl /\ wlErr' = out.err
    /\ wlPc' = "decoded"
    /\ UNCHANGED <<wlParts, wlTrail, wlDecodeFails, wlVal, wlDiag, wlDiagErr>>
    /\ UNCHANGED <<codecVars, scanVars, httpVars>>

\* Decode(diag) returns to Diagnostic, and Diagnostic returns.
WlDiagnosticReturns ==
    /\ wlPc = "decoded"
    /\ LET res == DiagnosticDecoded(wlErr)
       IN  wlDiag' = res.model /\ wlDiagErr' = res.err
    /\ wlPc' = "returned"
    /\ UNCHANGED <<wlParts, wlTrail, wlDecodeFails, wlVal, wlList, wlErr>>
    /\ UNCHANGED <<codecVars, scanVars, httpVars>>

WlNext ==
    \/ WlUnmarshal
    \/ WlDiagnosticReturns

-----------------------------------------------------------------------------
(* SpecCodec: makeUDPPayload applied to inputs drawn from bounded sets *)

\* Two hardware addresses of six bytes.
MACs == {BroadcastMAC, <<100, 26, 16, 16, 16, 16>>}

\* A payload of n bytes, the i-th being (fill + i) mod 256.
Payload(n, fill) == [i \in 1..n |-> (fill + i) % 256]

\* Payload lengths around the boundaries of the one-byte and two-byte length.
SmallLens == {0, 1, 2, 255, 256, 257, 300}
BigLens == {65535, 65536, 65793}

\* commandID is a uint8.
Cmds == 0..255

CodecInputs ==
    (Cmds \X MACs \X ({NilSlice} \cup {Slice(Payload(n, 7)) : n \in SmallLens}))
    \cup ({commandIDQuery, commandIDInfoReply, 10} \X {BroadcastMAC}
          \X {Slice(Payload(n, 0)) : n \in BigLens})

\* The parts a specification does not run stay at rest.
ScanIdle ==
    /\ scanPc = "idle" /\ recvPc = "none" /\ ctxDone = FALSE
    /\ sockOpen = FALSE /\ recvSockOpen = FALSE /\ pending = ZeroDeviceInfo
    /\ results = <<>> /\ resultSerials = {} /\ scanErr = "none" /\ sent = <<>>
    /\ accepted = <<>> /\ nHanded = 0 /\ nReads = 0 /\ lastRead = NoDatagram
    /\ lateAppends = 0

HttpIdle ==
    /\ httpPc = "off" /\ httpOp = "none" /\ httpArgs = <<>> /\ dAddr = ""
    /\ req = NoRequest /\ callerCtxDone = FALSE /\ cancelledOutstanding = FALSE
    /\ httpResp = NoResponse /\ httpModel = "nil" /\ httpErr = "none"
    /\ dialed = [ip |-> "", port |-> <<>>]

CodecIdle ==
    /\ cPc = "off" /\ cCmd = 0 /\ cMac = <<>> /\ cData = <<>> /\ cDataNil = TRUE
    /\ cPkt = <<>> /\ cErr = "none"

CodecInit ==
    /\ \E in \in CodecInputs :
         /\ cCmd = in[1] /\ cMac = in[2]
         /\ cData = in[3].bytes /\ cDataNil = in[3].isNil
    /\ cPc = "init" /\ cPkt = <<>> /\ cErr = "none"
    /\ ScanIdle /\ HttpIdle /\ WlIdle

\* One call of makeUDPPayload(cmd, mac, data).
Encode ==
    /\ cPc = "init"
    /\ LET out == makeUDPPayload(cCmd, cMac,
                                  IF cDataNil THEN NilSlice ELSE Slice(cData))
       IN  cPkt' = out.pkt /\ cErr' = out.err
    /\ cPc' = "done"
    /\ UNCHANGED <<cCmd, cMac, cData, cDataNil, scanVars, httpVars, wlVars>>

CodecNext == Encode

SpecCodec == CodecInit /\ [][CodecNext]_vars

InitScan == ScanInit /\ CodecIdle /\ HttpIdle /\ WlIdle

InitHttp == HttpInit /\ CodecIdle /\ ScanIdle /\ WlIdle

SpecHttp == InitHttp /\ [][HttpNext]_vars

SpecScan == InitScan /\ [][ScanNext]_vars

\* The scan with the scheduling of the receiver goroutine: a ReadFromUDP on
\* the closed socket returns its error, and a select whose ctx.Done() is ready
\* and whose send has no receiver left returns.
SpecScanFair ==
    /\ InitScan
    /\ [][ScanNext]_vars
    /\ WF_vars(RecvReadErr /\ ~recvSockOpen)
    /\ WF_vars(RecvCtxDone)

InitWl == WlInit /\ CodecIdle /\ ScanIdle /\ HttpIdle

SpecWl == InitWl /\ [][WlNext]_vars

-----------------------------------------------------------------------------
(* Claims about the codec, checked under SpecCodec *)

\* The little-endian 16-bit number held in bytes 15 and 16 of a packet.
LengthField(pkt) == pkt[15] + 256 * pkt[16]

\* The 14-byte header of a packet: magic, address, command byte, zero byte.
HeaderOk(pkt, mac) ==
    /\ Len(pkt) >= 16
    /\ SubSeq(pkt, 1, 6) = <<65, 66, 67, 51, 50, 49>>
    /\ SubSeq(pkt, 7, 12) = mac
    /\ pkt[13] \in 0..255
    /\ pkt[14] = 0

\* C9: for every command code c in 0..9 the command byte (offset 12, the 13th
\* byte) of the packet equals c, and for every c in 10..99 it equals
\* 16*(c div 10) + (c mod 10): code 10 gives 0x10, not 0x0A.
C9_CommandByte ==
    (cPc = "done" /\ cCmd \in 0..99) =>
        /\ cErr = Nil
        /\ cCmd \in 0..9 => cPkt[13] = cCmd
        /\ cCmd \in 10..99 => cPkt[13] = 16 * (cCmd \div 10) + (cCmd % 10)

\* C9 witness: command code 10 was encoded and its byte is 0x10 = 16.
C9_Witness == cPc = "done" /\ cCmd = 10 /\ cErr = Nil /\ cPkt[13] = 16

\* C10 as stated: for every payload and 6-byte address, the packet is the
\* header, then the length bytes len mod 256 and len div 256, which read as a
\* little-endian 16-bit number equal len(payload), then the payload verbatim.
C10_Original ==
    (cPc = "done" /\ Len(cMac) = 6 /\ cErr = Nil) =>
        /\ HeaderOk(cPkt, cMac)
        /\ cPkt[15] = Len(cData) % 256
        /\ cPkt[16] = Len(cData) \div 256
        /\ LengthField(cPkt) = Len(cData)
        /\ SubSeq(cPkt, 17, Len(cPkt)) = cData

\* C10 amended: the same for payloads shorter than 65536 bytes; for a longer
\* payload the second length byte is (len div 256) mod 256 (the conversion to
\* uint8 drops the high bits), the header and the verbatim payload are as stated.
\* With no payload the length bytes are {0,0} and the packet is 16 bytes.
C10_PacketLayout ==
    (cPc = "done" /\ Len(cMac) = 6 /\ cErr = Nil) =>
        /\ HeaderOk(cPkt, cMac)
        /\ Len(cPkt) = 16 + Len(cData)
        /\ SubSeq(cPkt, 17, Len(cPkt)) = cData
        /\ cPkt[15] = Len(cData) % 256
        /\ cPkt[16] = (Len(cData) \div 256) % 256
        /\ Len(cData) < 65536 =>
              /\ cPkt[16] = Len(cData) \div 256
              /\ LengthField(cPkt) = Len(cData)
        /\ cDataNil => Len(cPkt) = 16 /\ cPkt[15] = 0 /\ cPkt[16] = 0

\* C10 witness: a 257-byte payload was encoded with length bytes {1, 1}.
C10_Witness ==
    /\ cPc = "done" /\ cErr = Nil /\ Len(cData) = 257
    /\ cPkt[15] = 1 /\ cPkt[16] = 1 /\ Len(cPkt) = 273

-----------------------------------------------------------------------------
(* Claims about the discovery scan, checked under SpecScan *)

\* The DeviceInfo a datagram decodes into.
DeviceInfoOf(dg) == [SerialNum |-> dg.SerialNum, FwVersion |-> dg.FwVersion]

\* The indices of results that carry serial number s.
WithSerial(s) == {i \in 1..Len(results) : results[i].SerialNum = s}

\* C1: the results hold at most one DeviceInfo per serial number, and every
\* serial number that was handed to the aggregator, however many times, has
\* exactly one element.
C1_OnePerSerial ==
    /\ \A i, j \in 1..Len(results) :
         results[i].SerialNum = results[j].SerialNum => i = j
    /\ \A k \in 1..nHanded : Cardinality(WithSerial(accepted[k].SerialNum)) = 1

\* C1 witness: ScanUDP returned after two replies with the same serial number
\* were handed over, and the result has one element.
C1_Witness ==
    /\ scanPc = "returned" /\ nHanded >= 2
    /\ accepted[1].SerialNum = accepted[2].SerialNum
    /\ Len(results) = 1

\* A datagram the claim C2 says is dropped.
Rejected(dg) == dg.port # 50632 \/ dg.read < 17 \/ dg.cmd # 6

\* C2: a datagram whose source port is not UDPPort, or shorter than 17 bytes,
\* or whose byte 12 is not InfoReply (6), is never put on the hand-off channel,
\* and every element of the results is the decoding of a datagram that was
\* handed over, none of which is such a datagram.
C2_RejectedNeverHandedOff ==
    /\ \A k \in 1..Len(accepted) : ~Rejected(accepted[k])
    /\ Len(accepted) - nHanded \in {0, 1}
    /\ recvPc = "offer" =>
         /\ Len(accepted) = nHanded + 1
         /\ pending = DeviceInfoOf(accepted[Len(accepted)])
    /\ \A i \in 1..Len(results) :
         \E k \in 1..nHanded : results[i] = DeviceInfoOf(accepted[k])

\* C2 witness: ScanUDP returned a result after the receiver read a reply from
\* another port that would otherwise have decoded into a DeviceInfo with a
\* serial number that is in no result.
C2_Witness ==
    /\ scanPc = "returned" /\ scanErr = Nil /\ Len(results) = 1
    /\ lastRead.port # UDPPort /\ lastRead.read >= 17
    /\ lastRead.cmd = commandIDInfoReply /\ lastRead.xmlOk
    /\ WithSerial(lastRead.SerialNum) = {}

\* C3 as stated: once the scan context is done, no DeviceInfo is appended to
\* the results.
C3_Original == [][ctxDone => results' = results]_vars

\* C3 amended: once the scan context is done, the aggregator's select can
\* return; a DeviceInfo is appended then only if the receiver had it on offer
\* while the aggregator was still at its select (Go's select picks among ready
\* cases at random), and none after ScanUDP has returned.
C3_AppendAfterDoneOnlyFromOffer ==
    [][(ctxDone /\ results' # results) =>
          /\ scanPc = "loop" /\ scanPc' = "loop"
          /\ recvPc = "offer"
          /\ results' = Append(results, pending)]_vars

\* C3 witness: ScanUDP returned a result holding a record that was appended
\* while the context was already done.
C3_Witness == scanPc = "returned" /\ scanErr = Nil /\ lateAppends > 0

\* C4: a ScanUDP that wrote its query returns a nil error, and an empty result
\* if no datagram passed the receiver's checks.
C4_NilErrorAfterWrite ==
    (scanPc = "returned" /\ sent # <<>>) =>
        /\ scanErr = Nil
        /\ Len(accepted) = 0 => Len(results) = 0

\* C4 witness: ScanUDP returned after datagrams were read and all rejected,
\* with a nil error and an empty result.
C4_Witness ==
    /\ scanPc = "returned" /\ sent # <<>> /\ nReads > 0 /\ Len(accepted) = 0
    /\ scanErr = Nil /\ results = <<>>

-----------------------------------------------------------------------------
(* Claims about the device client, checked under SpecHttp *)

\* C5: if the ctx passed to Diagnostic or SetIntensities is cancelled (or its
\* deadline expires) while the request is outstanding, the call returns an
\* error instead of waiting on for the response.
C5_BoundedByContext ==
    (httpPc = "returned" /\ cancelledOutstanding) => httpErr = "err"

Depth(body, k) ==
    Cardinality({i \in 1..k : body[i] = "start"})
    - Cardinality({i \in 1..k : body[i] = "end"})

\* A body that is one well-formed element and nothing else.
WellFormed(body) ==
    /\ Len(body) >= 2
    /\ body[1] = "start"
    /\ \A k \in 1..Len(body) : body[k] # "junk"
    /\ \A k \in 1..(Len(body) - 1) : Depth(body, k) > 0
    /\ Depth(body, Len(body)) = 0

\* A body in which, after character data only, one well-formed element stands.
StartsWithElement(body) ==
    \E i, j \in 1..Len(body) :
        /\ i < j
        /\ \A k \in 1..(i - 1) : body[k] = "text"
        /\ WellFormed(SubSeq(body, i, j))

RECURSIVE SplitOn(_, _)
SplitOn(str, sep) ==
    IF \A k \in 1..Len(str) : str[k] # sep THEN <<str>>
    ELSE LET k == CHOOSE k \in 1..Len(str) :
                      str[k] = sep /\ \A m \in 1..(k - 1) : str[m] # sep
         IN  <<SubSeq(str, 1, k - 1)>> \o SplitOn(SubSeq(str, k + 1, Len(str)), sep)

\* url.QueryUnescape over the characters that occur here.
RECURSIVE QueryUnescape(_)
QueryUnescape(str) ==
    IF str = <<>> THEN <<>>
    ELSE IF Len(str) >= 3 /\ SubSeq(str, 1, 3) = <<"%", "3", "A">>
         THEN <<":">> \o QueryUnescape(SubSeq(str, 4, Len(str)))
         ELSE <<Head(str)>> \o QueryUnescape(Tail(str))

\* The number a decimal rendering stands for; a rendering that is none gives
\* a value outside the intensities.
RECURSIVE DecimalValue(_)
DecimalValue(str) ==
    IF str = <<>> THEN 0
    ELSE 10 * DecimalValue(SubSeq(str, 1, Len(str) - 1)) + FromHexChar(str[Len(str)])

Atoi(str) ==
    IF str = <<>> \/ str = <<"-">> THEN 1000000
    ELSE IF Head(str) = "-" THEN 0 - DecimalValue(Tail(str))
    ELSE DecimalValue(str)

\* C8: the request of SetIntensities is a GET of /intensity.cgi whose only
\* query parameter is int; its value is the decimal renderings of the n
\* intensities in order joined by ':' (n-1 colons, none leading or trailing;
\* empty for n = 0); the call returns nil on status 200 and an error on any
\* other status.
C8_IntensityQuery ==
    (httpPc \in {"waiting", "returned"} /\ httpOp = "SetIntensities") =>
        LET params == SplitOn(req.URL.RawQuery, "&")
            kv == SplitOn(params[1], "=")
            value == QueryUnescape(kv[2])
            fields == SplitOn(value, ":")
            n == Len(httpArgs)
        IN  /\ req.Method = "GET"
            /\ req.URL.Path = "/intensity.cgi"
            /\ Len(params) = 1
            /\ Len(kv) = 2
            /\ kv[1] = <<"i", "n", "t">>
            /\ n = 0 => value = <<>>
            /\ n > 0 =>
                 /\ Cardinality({k \in 1..Len(value) : value[k] = ":"}) = n - 1
                 /\ Len(fields) = n
                 /\ \A i \in 1..n : Atoi(fields[i]) = httpArgs[i]
            /\ (httpPc = "returned" /\ httpResp.kind = "response") =>
                 (httpErr = Nil <=> httpResp.status = 200)
            /\ (httpPc = "returned" /\ httpResp.kind = "error") => httpErr = "err"

\* C8 witness: SetIntensities(ctx, 7, -1, 12) returned nil on status 200 with
\* the query int=7%3A-1%3A12.
C8_Witness ==
    /\ httpPc = "returned" /\ httpOp = "SetIntensities"
    /\ httpArgs = <<7, -1, 12>>
    /\ req.URL.RawQuery = <<"i", "n", "t", "=", "7", "%", "3", "A", "-", "1",
                            "%", "3", "A", "1", "2">>
    /\ httpResp.status = 200 /\ httpErr = Nil

-----------------------------------------------------------------------------
(* Further claims about the discovery scan, checked under SpecScan and, for
   termination, under SpecScanFair *)

\* C13: the send socket and the receive socket are closed when ScanUDP has
\* returned, on every exit path (no socket could be opened, the query could not
\* be built or written, the window ended), and stay closed.
C13_SocketsClosedAtReturn ==
    scanPc = "returned" => ~sockOpen /\ ~recvSockOpen

\* C13 witness: ScanUDP returned an error after it had opened both sockets and
\* started the receiver (the write of the query failed); both are closed.
C13_Witness ==
    /\ scanPc = "returned" /\ scanErr = "err" /\ recvPc # "none" /\ sent = <<>>
    /\ ~sockOpen /\ ~recvSockOpen

\* C14: at most one decoded DeviceInfo is pending between the receive loop and
\* the aggregator, and the receive loop reads a datagram only when no record
\* is pending: the one it offered was taken (a receiver that gives up its
\* offer because the context is done returns and reads no more).
C14_UnbufferedHandoff ==
    /\ [](Len(accepted) - nHanded \in {0, 1})
    /\ [](recvPc = "offer" => Len(accepted) = nHanded + 1)
    /\ [](recvPc = "read" => Len(accepted) = nHanded)
    /\ [][nReads' # nReads => (recvPc = "read" /\ Len(accepted) = nHanded)]_vars
    /\ [][(recvPc = "offer" /\ recvPc' # "offer") =>
             \/ (nHanded' = nHanded + 1 /\ recvPc' = "read")
             \/ (ctxDone /\ recvPc' = "exited")]_vars

\* C14 witness: a second datagram was read after the first record was taken by
\* the aggregator, and its record is now the one pending.
C14_Witness ==
    /\ recvPc = "offer" /\ nReads = 2 /\ Len(accepted) = 2 /\ nHanded = 1
    /\ pending = DeviceInfoOf(accepted[2])

\* C15: once ScanUDP has returned after starting the receiver goroutine, the
\* goroutine eventually terminates: blocked at its hand-off it returns because
\* the context is cancelled, blocked at its read because the socket is closed.
C15_ReceiverTerminates ==
    (scanPc = "returned" /\ recvPc # "none") ~> (recvPc = "exited")

\* C15 witness: ScanUDP has returned at the end of the window and the receiver
\* has terminated with a record it had on offer and never handed over.
C15_Witness ==
    /\ scanPc = "returned" /\ scanErr = Nil /\ recvPc = "exited"
    /\ Len(accepted) = nHanded + 1
    /\ ~recvSockOpen /\ ctxDone

\* A datagram the receive loop drops: C2's three checks, or a body that does
\* not decode.
Dropped(dg) == Rejected(dg) \/ ~dg.xmlOk

\* C16: a dropped datagram (wrong source port, too short, wrong command byte,
\* undecodable XML) leaves the receiver at its read, with nothing put on offer,
\* and every reply that was handed over, after however many dropped datagrams,
\* has its serial number in the results.
C16_RejectedDoesNotEndLoop ==
    /\ [][(nReads' = nReads + 1 /\ Dropped(lastRead')) =>
             (recvPc' = "read" /\ pending' = pending /\ accepted' = accepted)]_vars
    /\ [](\A k \in 1..nHanded : WithSerial(accepted[k].SerialNum) # {})

\* C16 witness: ScanUDP returned the record of a reply that was read, and
\* handed over, after two dropped datagrams.
C16_Witness ==
    /\ scanPc = "returned" /\ scanErr = Nil
    /\ nReads >= 3 /\ Len(accepted) = 1 /\ nHanded = 1
    /\ ~Dropped(lastRead)
    /\ results = <<DeviceInfoOf(lastRead)>>

\* The first record of each serial number among recs, in the order in which
\* the serial numbers first occur.
RECURSIVE FirstBySerial(_)
FirstBySerial(recs) ==
    IF recs = <<>> THEN <<>>
    ELSE LET front == SubSeq(recs, 1, Len(recs) - 1)
             last == recs[Len(recs)]
         IN  IF \E k \in 1..Len(front) : front[k].SerialNum = last.SerialNum
             THEN FirstBySerial(front)
             ELSE Append(FirstBySerial(front), last)

\* C19: the results list the devices in the order in which their serial
\* numbers were first handed to the aggregator, each with the first reply
\* handed over for it; no step replaces, changes or reorders an element that
\* is in the results.
C19_FirstReplyKeptInOrder ==
    /\ [](results = FirstBySerial([k \in 1..nHanded |-> DeviceInfoOf(accepted[k])]))
    /\ [][/\ Len(results') >= Len(results)
          /\ SubSeq(results', 1, Len(results)) = results]_vars

\* C19 witness: replies of serial a, of serial b and again of serial a with
\* another firmware version were handed over; ScanUDP returned the first and
\* the second.
C19_Witness ==
    /\ scanPc = "returned" /\ nHanded = 3
    /\ accepted[2].SerialNum # accepted[1].SerialNum
    /\ accepted[3].SerialNum = accepted[1].SerialNum
    /\ accepted[3].FwVersion # accepted[1].FwVersion
    /\ results = <<DeviceInfoOf(accepted[1]), DeviceInfoOf(accepted[2])>>

-----------------------------------------------------------------------------
(* Claims about the wavelength list, checked under SpecWl *)

\* A segment "number:wavelength:power": three fields, the first the decimal
\* digits of a channel number that a uint8 holds.
WellFormedSegment(seg) ==
    /\ Len(seg) = 3
    /\ seg[1] # <<>>
    /\ \A k \in 1..Len(seg[1]) : FromHexChar(seg[1][k]) \in 0..9
    /\ DecimalValue(seg[1]) \in 0..255

\* The description a well-formed segment stands for.
DescriptionOf(seg) ==
    [Number |-> DecimalValue(seg[1]), Wavelength |-> seg[2], Power |-> seg[3]]

\* C11: decoding a text of n well-formed segments "number:wavelength:power",
\* each followed by a comma, yields exactly n WavelengthDescriptions, the i-th
\* holding the three fields of the i-th segment, in source order; for n >= 1
\* the decode returns no error and Diagnostic returns the model.
C11_SegmentsInOrder ==
    (/\ wlPc \in {"decoded", "returned"}
     /\ ~wlDecodeFails
     /\ \A i \in 1..Len(wlParts) : WellFormedSegment(wlParts[i])
     /\ wlTrail = (IF Len(wlParts) = 0 THEN 0 ELSE 1)) =>
        /\ Len(wlList) = Len(wlParts)
        /\ \A i \in 1..Len(wlParts) : wlList[i] = DescriptionOf(wlParts[i])
        /\ Len(wlParts) >= 1 => wlErr = Nil
        /\ (Len(wlParts) >= 1 /\ wlPc = "returned") =>
              wlDiag = "model" /\ wlDiagErr = Nil

\* C11 witness: "0:450nm:10.2W,1:660nm:5.2W," was decoded into the two
\* descriptions {0, 450nm, 10.2W} and {1, 660nm, 5.2W}, in that order.
C11_Witness ==
    /\ wlPc = "returned"
    /\ wlVal = <<"0", ":", "4", "5", "0", "n", "m", ":", "1", "0", ".", "2", "W", ",",
                 "1", ":", "6", "6", "0", "n", "m", ":", "5", ".", "2", "W", ",">>
    /\ wlErr = Nil /\ wlDiag = "model"
    /\ wlList = << [Number |-> 0, Wavelength |-> <<"4", "5", "0", "n", "m">>,
                    Power |-> <<"1", "0", ".", "2", "W">>],
                   [Number |-> 1, Wavelength |-> <<"6", "6", "0", "n", "m">>,
                    Power |-> <<"5", ".", "2", "W">>] >>

\* The text without its last character if that is a comma.
TrimOneComma(str) ==
    IF str # <<>> /\ str[Len(str)] = "," THEN SubSeq(str, 1, Len(str) - 1) ELSE str

\* The segments of a text as the specification cuts it: one trailing comma
\* removed, then split on commas; each segment as its colon-separated fields.
SegmentsOf(str) ==
    LET segs == SplitOn(TrimOneComma(str), ",")
    IN  [i \in 1..Len(segs) |-> SplitOn(segs[i], ":")]

\* A channel number field that is no number: not an optional sign followed by
\* one or more decimal digits.
NonNumeric(field) ==
    LET digits == IF field # <<>> /\ field[1] \in {"-", "+"} THEN Tail(field) ELSE field
    IN  digits = <<>> \/ \E k \in 1..Len(digits) : FromHexChar(digits[k]) \notin 0..9

\* A text that ends with two or more commas.
EndsWithTwoCommas(str) ==
    Len(str) >= 2 /\ str[Len(str)] = "," /\ str[Len(str) - 1] = ","

\* C12: if any segment of the text, at any position, does not have exactly
\* three colon-separated fields or has a non-numeric channel number, the decode
\* returns an error, the target WavelengthList holds no element (no partial
\* list), and the enclosing Diagnostic call returns no model.  (Texts that end
\* with more than one comma are left to C17.)
C12_AllOrNothing ==
    (/\ wlPc \in {"decoded", "returned"}
     /\ ~wlDecodeFails
     /\ ~EndsWithTwoCommas(wlVal)
     /\ \E i \in 1..Len(SegmentsOf(wlVal)) :
            \/ Len(SegmentsOf(wlVal)[i]) # 3
            \/ NonNumeric(SegmentsOf(wlVal)[i][1])) =>
        /\ wlErr \notin {"none", Nil}
        /\ wlList = <<>>
        /\ wlPc = "returned" => wlDiag = "nil" /\ wlDiagErr \notin {"none", Nil}

\* C17: the decoder removes exactly one trailing comma before it splits on
\* commas: a text that ends with two or more commas keeps an empty final
\* segment and is rejected as invalid (field count other than three), and
\* Diagnostic returns no model for it.
C17_TrimsOneComma ==
    (/\ wlPc \in {"decoded", "returned"}
     /\ ~wlDecodeFails
     /\ EndsWithTwoCommas(wlVal)) =>
        /\ wlErr \notin {"none", Nil}
        /\ wlPc = "returned" => wlDiag = "nil"

\* A channel number field that is a negative number.
Negative(field) == field # <<>> /\ field[1] = "-" /\ ~NonNumeric(field)

\* C18: a segment whose channel number is negative is rejected and invalidates
\* the whole list, and every WavelengthDescription produced has Number equal to
\* the numeric value of the first field of its segment (no wrap-around of
\* values outside 0..255).
C18_UnsignedChannelNumber ==
    (wlPc \in {"decoded", "returned"} /\ ~wlDecodeFails) =>
        /\ (\E i \in 1..Len(SegmentsOf(wlVal)) : Negative(SegmentsOf(wlVal)[i][1])) =>
              wlErr \notin {"none", Nil}
        /\ Len(wlList) <= Len(SegmentsOf(wlVal))
        /\ \A i \in 1..Len(wlList) :
              wlList[i].Number = Atoi(SegmentsOf(wlVal)[i][1])

====
